---------------------------- MODULE Spec2Model ----------------------------
(***************************************************************************)
(* A model of kubetui's related-resource resolvers (pods by selector,      *)
(* services by names) and of its event aggregator and polling loop.        *)
(*                                                                         *)
(* Each subsystem has its own specification over the module's variables:   *)
(*   SpecResolve  one related_resources call (fetch, filter, to_value)     *)
(*   SpecEvent    event_loop / get_event_table with its fan-out of fetches *)
(***************************************************************************)
EXTENDS Integers, Sequences, FiniteSets, TLC

---------------------------------------------------------------------------
(* Bounds of the model. *)

\* longest resource list the client returns
MaxItems == 2
\* longest name collection handed to the service resolver
MaxNames == 2
\* ticks of the polling loop's interval that are followed
MaxTicks == 2
\* the cells of a row handed to the formatter alone
MaxCells == 3
\* the width of usize and u64 in the model, in bits
UsizeBits == 3
\* the items of a List
MaxListLen == 3
\* the rows of the inner chunk of a List
ListHeight == 2
\* the rows a mouse event can name, counted from the top of the inner chunk
MaxRow == 3
\* the items a Text holds
MaxTextItems == 2

---------------------------------------------------------------------------
(* Option<T> and Result<T>. *)

None == [some |-> FALSE]
Some(v) == [some |-> TRUE, val |-> v]
IsSome(o) == o.some

Err == [ok |-> FALSE]
Ok(v) == [ok |-> TRUE, val |-> v]

\* all sequences over S of length at most n
SeqUpTo(S, n) == UNION {[1..k -> S] : k \in 0..n}

---------------------------------------------------------------------------
(* The resources the client can return. *)

Keys == {"app", "version"}
Vals == {"v1", "v2"}
\* BTreeMap<String, String>: a function on a finite set of keys
LabelMaps == UNION {[D -> Vals] : D \in SUBSET Keys}

PodNames == {"pod-1", "pod-2"}
ServiceNames == {"service-1", "service-2", "service-3"}
NamespaceNames == {"default", "dev"}

\* a Pod as far as the resolver reads it: metadata.name and metadata.labels
Pods == [name : {None} \cup {Some(n) : n \in PodNames},
         labels : {None} \cup {Some(m) : m \in LabelMaps}]
\* a Service as the name filter reads it: ResourceExt::name() needs the name
Services == [name : {Some(n) : n \in ServiceNames}, labels : {None}]

PodLists == SeqUpTo(Pods, MaxItems)
ServiceLists == SeqUpTo(Services, MaxItems)
NameVecs == SeqUpTo(ServiceNames \cup {"hoge"}, MaxNames)

---------------------------------------------------------------------------
(* State. *)

VARIABLES
    kind,       \* which resolver runs: "pod" (RelatedPod) or "service" (RelatedService)
    cluster,    \* the list the client returns when its request succeeds
    criteria,   \* RelatedPod.selector or RelatedService.names
    rpc,        \* position of the related_resources call
    requests,   \* the paths handed to client.request, in order
    fetched,    \* the outcome of fetch(): Err or Ok(list)
    filtered,   \* the outcome of the filter step, None until it ran
    result,     \* what related_resources returned: Err or Ok(Option<names>)
    namespaces, \* the shared namespace list behind the RwLock
    tables,     \* per namespace, the events table the API server holds
    writer,     \* the namespace list's writer: "idle" or "waiting" for the write lock
    rdLocked,   \* event_loop holds the read guard ns
    epc,        \* position of event_loop: "tick", "lock", "fetch" or "panicked"
    ticks,      \* ticks of the interval taken so far
    ns,         \* the list the read guard of the current iteration refers to
    jobs,       \* the futures handed to join_all, one per namespace, in list order
    completed,  \* the indexes of the futures of this join_all, in order of completion
    data,       \* get_event_table's local data after the sort
    chan,       \* the payloads sent on tx, in order
    chanOpen,   \* the receiver of the channel is alive
    frow,       \* the row handed to the format closure of get_event_table
    fout,       \* the string the closure returned, None before it ran
    litems,     \* List.items
    lsel,       \* List.state.selected
    loffset,    \* List.state.offset, which render keeps
    lcallback,  \* List.on_select holds a callback
    lstatus,    \* "ok", or "panicked" once an operation of the List panicked
    lop,        \* the operation the List performed last and its argument
    titems,     \* Text.items
    tspans,     \* Text.spans: the rendered lines
    trow_size,  \* Text.row_size
    tscroll,    \* Text.state.scroll_vertical
    twrap,      \* Text.wrap
    tfollow,    \* Text.follow
    twidth,     \* Text.chunk.width
    theight,    \* Text.chunk.height
    tstatus,    \* "ok", or "panicked" once an operation of the Text panicked
    top,        \* the operation the Text performed last and its argument
    thighlight  \* Text.highlight_content: the line saved by the last click and its index

rvars == <<kind, cluster, criteria, rpc, requests, fetched, filtered, result>>

evars == <<namespaces, tables, writer, rdLocked, epc, ticks, ns, jobs, completed, data,
           chan, chanOpen>>

fvars == <<frow, fout>>

lvars == <<litems, lsel, loffset, lcallback, lstatus, lop>>

tvars == <<titems, tspans, trow_size, tscroll, twrap, tfollow, twidth, theight, tstatus, top,
           thighlight>>

\* the state of the widgets and of the formatter
wvars == <<fvars, lvars, tvars>>

vars == <<kind, cluster, criteria, rpc, requests, fetched, filtered, result,
          namespaces, tables, writer, rdLocked, epc, ticks, ns, jobs, completed, data,
          chan, chanOpen, frow, fout, litems, lsel, loffset, lcallback, lstatus, lop,
          titems, tspans, trow_size, tscroll, twrap, tfollow, twidth, theight, tstatus, top,
          thighlight>>

---------------------------------------------------------------------------
(* The filter engine and the projection. *)

\* mutant: full equality of the two maps instead of containment
compare_btree_map_equal(lhs, rhs) == DOMAIN lhs = DOMAIN rhs /\ \A k \in DOMAIN lhs : lhs[k] = rhs[k]

\* every (key, value) of lhs is in rhs with an equal value
compare_btree_map(lhs, rhs) ==
    \A lhs_key \in DOMAIN lhs :
        IF lhs_key \in DOMAIN rhs THEN lhs[lhs_key] = rhs[lhs_key] ELSE FALSE

\* mutant: an empty selector is treated as matching nothing
SelectorFilter_empty_is_none(selector, target) ==
    LET ret == SelectSeq(target,
                   LAMBDA item : IF IsSome(item.labels)
                                 THEN compare_btree_map(selector, item.labels.val)
                                 ELSE FALSE)
    IN  IF ret # <<>> /\ DOMAIN selector # {} THEN Some(ret) ELSE None

\* mutant: the matching items are rebuilt with their names only
SelectorFilter_drops_labels(selector, target) ==
    LET ret == SelectSeq(target,
                   LAMBDA item : IF IsSome(item.labels)
                                 THEN compare_btree_map(selector, item.labels.val)
                                 ELSE FALSE)
    IN  IF ret # <<>>
        THEN Some([i \in DOMAIN ret |-> [name |-> ret[i].name, labels |-> None]])
        ELSE None

\* impl Filter for BTreeMap<String, String>
SelectorFilter(selector, target) ==
    LET ret == SelectSeq(target,
                   LAMBDA item : IF IsSome(item.labels)
                                 THEN compare_btree_map(selector, item.labels.val)
                                 ELSE FALSE)
    IN  IF ret # <<>> THEN Some(ret) ELSE None

\* the services named arg[i], for i = from..Len(arg), in the order of arg
RECURSIVE ByNamesOrder(_, _, _)
ByNamesOrder(list, arg, from) ==
    IF from > Len(arg) THEN <<>>
    ELSE SelectSeq(list, LAMBDA svc : svc.name.val = arg[from]) \o ByNamesOrder(list, arg, from + 1)

\* mutant: iterates the names and collects the services in the order of the names
filter_by_item_names_order(list, arg) ==
    LET ret == ByNamesOrder(list, arg, 1)
    IN  IF ret # <<>> THEN Some(ret) ELSE None

\* mutant: all() in place of any(), so an empty name collection matches everything
filter_by_item_all(list, arg) ==
    LET ret == SelectSeq(list,
                   LAMBDA svc : \A i \in 1..Len(arg) : svc.name.val = arg[i])
    IN  IF ret # <<>> THEN Some(ret) ELSE None

\* impl Filter for List<Service>
filter_by_item(list, arg) ==
    LET ret == SelectSeq(list,
                   LAMBDA svc : \E i \in 1..Len(arg) : svc.name.val = arg[i])
    IN  IF ret # <<>> THEN Some(ret) ELSE None

\* filter_map(|pod| pod.metadata.name.as_ref()) then map to Value, in list order
NamesOf(items) ==
    LET named == SelectSeq(items, LAMBDA pod : IsSome(pod.name))
    IN  [i \in 1..Len(named) |-> named[i].name.val]

\* mutant: the emptiness test is dropped
to_value_always_some(list) == Some(NamesOf(list))

\* impl ToValue for FetchedPodList
to_value(list) ==
    LET ret == NamesOf(list)
    IN  IF ret # <<>> THEN Some(ret) ELSE None

---------------------------------------------------------------------------
(* The resolvers. *)

\* FetchPodClient::fetch builds the path with format!
PodPath(namespace) == "api/v1/namespaces/" \o namespace \o "/pods"
\* the path the service resolver's mocked client expects
ServicePath(namespace) == "/api/v1/namespaces/" \o namespace \o "/services"

\* mutant: the filter step is skipped and the whole fetched list is projected
RelatedPodValue_unfiltered(selector, list) == Ok(to_value(list))

\* RelatedPod::related_resources after a successful fetch
RelatedPodValue(selector, list) ==
    LET filter == SelectorFilter(selector, list)
    IN  IF IsSome(filter) THEN Ok(to_value(filter.val)) ELSE Ok(None)

\* RelatedResources::related_resources of RelatedService after a successful fetch
RelatedServiceValue(names, list) ==
    LET filter == filter_by_item(list, names)
    IN  IF IsSome(filter) THEN Ok(to_value(filter.val)) ELSE Ok(None)

\* no row is being formatted
FormatIdle ==
    /\ frow = <<>>
    /\ fout = None

\* a List built without items, untouched
ListIdle ==
    /\ litems = <<>>
    /\ lsel = None
    /\ loffset = 0
    /\ lcallback = FALSE
    /\ lstatus = "ok"
    /\ lop = [op |-> "build", arg |-> 0]

\* Text::new(vec![]), untouched
TextIdle ==
    /\ titems = <<>>
    /\ tspans = <<>>
    /\ trow_size = 0
    /\ tscroll = 0
    /\ twrap = FALSE
    /\ tfollow = FALSE
    /\ twidth = 0
    /\ theight = 0
    /\ tstatus = "ok"
    /\ top = [op |-> "new", arg |-> 0]
    /\ thighlight = None

WidgetsIdle == FormatIdle /\ ListIdle /\ TextIdle

\* the event loop before its first tick
EventIdle ==
    /\ writer = "idle"
    /\ rdLocked = FALSE
    /\ epc = "tick"
    /\ ticks = 0
    /\ ns = <<>>
    /\ jobs = <<>>
    /\ completed = <<>>
    /\ data = <<>>
    /\ chan = <<>>
    /\ chanOpen = TRUE

InitResolve ==
    /\ WidgetsIdle
    /\ namespaces = <<>>
    /\ tables = <<>>
    /\ EventIdle
    /\ kind \in {"pod", "service"}
    /\ IF kind = "pod"
       THEN cluster \in PodLists /\ criteria \in LabelMaps
       ELSE cluster \in ServiceLists /\ criteria \in NameVecs
    /\ rpc = "new"
    /\ requests = <<>>
    /\ fetched = None
    /\ filtered = None
    /\ result = None

\* related_resources up to the await of client.request
Request ==
    /\ rpc = "new"
    /\ \E namespace \in NamespaceNames :
        requests' = Append(requests,
                        IF kind = "pod" THEN PodPath(namespace) ELSE ServicePath(namespace))
    /\ rpc' = "requesting"
    /\ UNCHANGED <<kind, cluster, criteria, fetched, filtered, result>>
    /\ UNCHANGED evars
    /\ UNCHANGED wvars

\* mutant: the fetched list is filtered in place (retain)
ResponseOk_in_place ==
    /\ rpc = "requesting"
    /\ filtered' = Some(IF kind = "pod" THEN SelectorFilter(criteria, cluster)
                                         ELSE filter_by_item(cluster, criteria))
    /\ fetched' = Some(Ok(IF IsSome(filtered'.val) THEN filtered'.val.val ELSE <<>>))
    /\ result' = Some(IF kind = "pod" THEN RelatedPodValue(criteria, cluster)
                                       ELSE RelatedServiceValue(criteria, cluster))
    /\ rpc' = "done"
    /\ UNCHANGED <<kind, cluster, criteria, requests>>
    /\ UNCHANGED evars
    /\ UNCHANGED wvars

\* the request succeeded: filter, project, return
ResponseOk ==
    /\ rpc = "requesting"
    /\ fetched' = Some(Ok(cluster))
    /\ filtered' = Some(IF kind = "pod" THEN SelectorFilter(criteria, cluster)
                                         ELSE filter_by_item(cluster, criteria))
    /\ result' = Some(IF kind = "pod" THEN RelatedPodValue(criteria, cluster)
                                       ELSE RelatedServiceValue(criteria, cluster))
    /\ rpc' = "done"
    /\ UNCHANGED <<kind, cluster, criteria, requests>>
    /\ UNCHANGED evars
    /\ UNCHANGED wvars

\* mutant: a failed request is reported as "nothing related"
ResponseErr_as_none ==
    /\ rpc = "requesting"
    /\ fetched' = Some(Err)
    /\ result' = Some(Ok(None))
    /\ rpc' = "done"
    /\ UNCHANGED <<kind, cluster, criteria, requests, filtered>>
    /\ UNCHANGED evars
    /\ UNCHANGED wvars

\* mutant: a failed request is sent again
ResponseErr_retry ==
    /\ rpc = "requesting"
    /\ rpc' = IF Len(requests) < 2 THEN "new" ELSE "done"
    /\ fetched' = IF Len(requests) < 2 THEN fetched ELSE Some(Err)
    /\ result' = IF Len(requests) < 2 THEN result ELSE Some(Err)
    /\ UNCHANGED <<kind, cluster, criteria, requests, filtered>>
    /\ UNCHANGED evars
    /\ UNCHANGED wvars

\* the request failed: the ? operator returns the error
ResponseErr ==
    /\ rpc = "requesting"
    /\ fetched' = Some(Err)
    /\ result' = Some(Err)
    /\ rpc' = "done"
    /\ UNCHANGED <<kind, cluster, criteria, requests, filtered>>
    /\ UNCHANGED evars
    /\ UNCHANGED wvars

NextResolve == Request \/ ResponseOk \/ ResponseErr

SpecResolve == InitResolve /\ [][NextResolve]_vars

---------------------------------------------------------------------------
(* The events tables of the cluster. *)

TARGET_LEN == 4
TARGET == [i \in 1..TARGET_LEN |-> <<"Last Seen", "Object", "Reason", "Message">>[i]]

\* the columns of the events table as the API server renders it
EventHeader == <<"Last Seen", "Type", "Reason", "Object", "Message">>

RowPulled == <<"2m", "Normal", "Pulled", "pod/a", "pulled">>
RowFailed == <<"60s", "Warning", "Failed", "pod/b", "failed">>
RowKilling == <<"1m", "Normal", "Killing", "pod/c", "stop">>

\* the tables a namespace can hold; the last one is not in time order
EventTables == {<<>>, <<RowPulled>>, <<RowFailed>>, <<RowKilling, RowPulled>>}

\* the namespace lists a writer can leave: no namespace twice
NsLists ==
    {s \in SeqUpTo(NamespaceNames, Cardinality(NamespaceNames)) :
        \A i, j \in DOMAIN s : i # j => s[i] # s[j]}

---------------------------------------------------------------------------
(* The event aggregator: get_event_table. *)

\* the position in the header of each target column
find_indexes(header, target) ==
    [k \in DOMAIN target |-> CHOOSE i \in DOMAIN header : header[i] = target[k]]

\* the closure create_cells: the cells of row at indexes (0-based in the code)
create_cells(row, indexes) == [k \in DOMAIN indexes |-> row[indexes[k]]]

\* mutant: with a single namespace no namespace cell is inserted
insert_namespace_index_single(index, len) == IF len = 1 THEN None ELSE Some(index)

\* the column at which the namespace cell goes
insert_namespace_index(index, len) == Some(index)

\* Vec::insert(index, x), index counted from 0
VecInsert(cells, index, x) ==
    SubSeq(cells, 1, index) \o <<x>> \o SubSeq(cells, index + 1, Len(cells))

\* the rows one namespace contributes: none when its request failed
get_resourse_per_namespace(ok, table, namespace, insert_ns) ==
    IF ~ok THEN <<>>
    ELSE [r \in DOMAIN table |->
            LET cells == create_cells(table[r], find_indexes(EventHeader, TARGET))
            IN  IF IsSome(insert_ns) THEN VecInsert(cells, insert_ns.val, namespace)
                                     ELSE cells]

\* the age a "last seen" cell states, in seconds
AgeSeconds(cell) ==
    CASE cell = "2m" -> 120
      [] cell = "60s" -> 60
      [] cell = "1m" -> 60

\* the time a "last seen" cell stands for, counted from now
to_time(cell) == 0 - AgeSeconds(cell)

RECURSIVE Flatten(_)
Flatten(seqs) == IF seqs = <<>> THEN <<>> ELSE Head(seqs) \o Flatten(Tail(seqs))

\* mutant: one failed fetch discards the rows of every namespace
MergedRows_all_or_nothing(js) ==
    IF \E i \in DOMAIN js : ~js[i].ok THEN <<>>
    ELSE Flatten([i \in DOMAIN js |-> js[i].rows])

\* mutant: the rows are collected in the order in which the fetches completed
MergedRows_completion_order(js) ==
    Flatten([k \in DOMAIN completed |-> js[completed[k]].rows])

\* jobs.await.into_iter().flatten().collect(): the rows in the order of the namespaces
MergedRows(js) == Flatten([i \in DOMAIN js |-> js[i].rows])

\* row goes behind every row whose key is not greater: the sort is stable
RECURSIVE InsertByKey(_, _)
InsertByKey(sorted, row) ==
    IF sorted = <<>> THEN <<row>>
    ELSE IF to_time(Head(sorted)[1]) <= to_time(row[1])
         THEN <<Head(sorted)>> \o InsertByKey(Tail(sorted), row)
         ELSE <<row>> \o sorted

RECURSIVE SortRows(_)
SortRows(rows) ==
    IF rows = <<>> THEN <<>>
    ELSE InsertByKey(SortRows(SubSeq(rows, 1, Len(rows) - 1)), rows[Len(rows)])

\* mutant: the sort is left out and the rows stay in fetch order
sort_by_key_missing(rows) == rows

\* data.sort_by_key(|row| row[0].to_time())
sort_by_key(rows) == SortRows(rows)

CellWidth == 4
DIM == "\\x1b[90m"
RESET == "\\x1b[0m"

RECURSIVE Spaces(_)
Spaces(n) == IF n <= 0 THEN "" ELSE " " \o Spaces(n - 1)

\* mutant: the cell is written without padding
PadCell_unpadded(item) == item \o "  "

\* format!("{:<4}  ", item)
PadCell(item) == item \o Spaces(CellWidth - Len(item)) \o "  "

\* format!("\n\x1b[90m> {}\x1b[0m\n ", item)
LastCell(item) == "\n" \o DIM \o "> " \o item \o RESET \o "\n "

\* the fold over the enumerated cells of v, from cell i (counted from 0) on
RECURSIVE FoldCells(_, _, _)
FoldCells(v, i, s) ==
    IF i >= Len(v) THEN s
    ELSE FoldCells(v, i + 1,
             IF i = Len(v) - 1 THEN s \o LastCell(v[i + 1]) ELSE s \o PadCell(v[i + 1]))

FormatRow(v) == FoldCells(v, 0, "")

\* data.iter().map(..).collect()
FormatRows(rows) == [i \in DOMAIN rows |-> FormatRow(rows[i])]

---------------------------------------------------------------------------
(* The polling loop: event_loop. *)

Pending == [done |-> FALSE, ok |-> FALSE, rows |-> <<>>]

AllDone == \A i \in DOMAIN jobs : jobs[i].done

ResolverIdle ==
    /\ kind = "pod"
    /\ cluster = <<>>
    /\ criteria = <<>>
    /\ rpc = "new"
    /\ requests = <<>>
    /\ fetched = None
    /\ filtered = None
    /\ result = None

InitEvent ==
    /\ WidgetsIdle
    /\ ResolverIdle
    /\ namespaces \in NsLists
    /\ tables \in [NamespaceNames -> EventTables]
    /\ EventIdle

\* interval.tick().await returns
Tick ==
    /\ epc = "tick"
    /\ ticks < MaxTicks
    /\ ticks' = ticks + 1
    /\ epc' = "lock"
    /\ UNCHANGED <<namespaces, tables, writer, rdLocked, ns, jobs, completed, data, chan, chanOpen>>
    /\ UNCHANGED rvars
    /\ UNCHANGED wvars

\* namespaces.read().await returns the guard; get_event_table runs up to join_all
AcquireRead ==
    /\ epc = "lock"
    /\ writer = "idle"
    /\ rdLocked' = TRUE
    /\ ns' = namespaces
    /\ jobs' = [i \in DOMAIN namespaces |-> Pending]
    /\ completed' = <<>>
    /\ epc' = "fetch"
    /\ UNCHANGED <<namespaces, tables, writer, ticks, data, chan, chanOpen>>
    /\ UNCHANGED rvars
    /\ UNCHANGED wvars

\* mutant: the first error ends the join and drops the futures still pending
FetchComplete_cancel_on_error ==
    /\ epc = "fetch"
    /\ \E i \in DOMAIN jobs, ok \in BOOLEAN :
        /\ ~jobs[i].done
        /\ jobs' = [j \in DOMAIN jobs |->
                       IF j = i
                       THEN [done |-> TRUE, ok |-> ok,
                             rows |-> get_resourse_per_namespace(ok, tables[ns[i]], ns[i],
                                          insert_namespace_index(1, Len(ns)))]
                       ELSE IF ok THEN jobs[j]
                       ELSE [done |-> TRUE, ok |-> FALSE, rows |-> <<>>]]
        /\ completed' = Append(completed, i)
    /\ UNCHANGED <<namespaces, tables, writer, rdLocked, epc, ticks, ns, data, chan, chanOpen>>
    /\ UNCHANGED rvars
    /\ UNCHANGED wvars

\* mutant: the error of a fetch is unwrapped and ends the loop
FetchComplete_error_panics ==
    /\ epc = "fetch"
    /\ \E i \in DOMAIN jobs, ok \in BOOLEAN :
        /\ ~jobs[i].done
        /\ jobs' = [jobs EXCEPT ![i] =
                       [done |-> TRUE, ok |-> ok,
                        rows |-> get_resourse_per_namespace(ok, tables[ns[i]], ns[i],
                                     insert_namespace_index(1, Len(ns)))]]
        /\ completed' = Append(completed, i)
        /\ epc' = IF ok THEN epc ELSE "panicked"
        /\ rdLocked' = IF ok THEN rdLocked ELSE FALSE
    /\ UNCHANGED <<namespaces, tables, writer, ticks, ns, data, chan, chanOpen>>
    /\ UNCHANGED rvars
    /\ UNCHANGED wvars

\* the request of one namespace's future comes back, with a table or with an error
FetchComplete ==
    /\ epc = "fetch"
    /\ \E i \in DOMAIN jobs, ok \in BOOLEAN :
        /\ ~jobs[i].done
        /\ jobs' = [jobs EXCEPT ![i] =
                       [done |-> TRUE, ok |-> ok,
                        rows |-> get_resourse_per_namespace(ok, tables[ns[i]], ns[i],
                                     insert_namespace_index(1, Len(ns)))]]
        /\ completed' = Append(completed, i)
    /\ UNCHANGED <<namespaces, tables, writer, rdLocked, epc, ticks, ns, data, chan, chanOpen>>
    /\ UNCHANGED rvars
    /\ UNCHANGED wvars

\* mutant: a tick without rows publishes nothing
Publish_skip_empty ==
    /\ epc = "fetch"
    /\ AllDone
    /\ chanOpen
    /\ data' = sort_by_key(MergedRows(jobs))
    /\ chan' = IF data' = <<>> THEN chan
               ELSE Append(chan, [tick |-> ticks, rows |-> FormatRows(data')])
    /\ rdLocked' = FALSE
    /\ epc' = "tick"
    /\ UNCHANGED <<namespaces, tables, writer, ticks, ns, jobs, completed, chanOpen>>
    /\ UNCHANGED rvars
    /\ UNCHANGED wvars

\* mutant: the namespaces whose fetch failed are taken off the shared list
Publish_drops_failed ==
    /\ epc = "fetch"
    /\ AllDone
    /\ chanOpen
    /\ data' = sort_by_key(MergedRows(jobs))
    /\ chan' = Append(chan, [tick |-> ticks, rows |-> FormatRows(data')])
    /\ namespaces' = [j \in 1..Cardinality({i \in DOMAIN ns : jobs[i].ok}) |->
                         ns[CHOOSE i \in DOMAIN ns :
                                /\ jobs[i].ok
                                /\ Cardinality({h \in 1..i : jobs[h].ok}) = j]]
    /\ rdLocked' = FALSE
    /\ epc' = "tick"
    /\ UNCHANGED <<tables, writer, ticks, ns, jobs, completed, chanOpen>>
    /\ UNCHANGED rvars
    /\ UNCHANGED wvars

\* join_all is complete: merge, sort, format, send; the guard is dropped at the end
\* of the iteration. The payload's tick is the number of the iteration that sent it.
Publish ==
    /\ epc = "fetch"
    /\ AllDone
    /\ chanOpen
    /\ data' = sort_by_key(MergedRows(jobs))
    /\ chan' = Append(chan, [tick |-> ticks, rows |-> FormatRows(data')])
    /\ rdLocked' = FALSE
    /\ epc' = "tick"
    /\ UNCHANGED <<namespaces, tables, writer, ticks, ns, jobs, completed, chanOpen>>
    /\ UNCHANGED rvars
    /\ UNCHANGED wvars

\* mutant: the error of send is dropped and the loop goes on to the next tick
SendFails_ignored ==
    /\ epc = "fetch"
    /\ AllDone
    /\ ~chanOpen
    /\ data' = sort_by_key(MergedRows(jobs))
    /\ rdLocked' = FALSE
    /\ epc' = "tick"
    /\ UNCHANGED <<namespaces, tables, writer, ticks, ns, jobs, completed, chan, chanOpen>>
    /\ UNCHANGED rvars
    /\ UNCHANGED wvars

\* mutant: the error of send ends the loop by a return
SendFails_returns ==
    /\ epc = "fetch"
    /\ AllDone
    /\ ~chanOpen
    /\ data' = sort_by_key(MergedRows(jobs))
    /\ rdLocked' = FALSE
    /\ epc' = "returned"
    /\ UNCHANGED <<namespaces, tables, writer, ticks, ns, jobs, completed, chan, chanOpen>>
    /\ UNCHANGED rvars
    /\ UNCHANGED wvars

\* join_all is complete and the receiver is gone: send fails and unwrap panics
SendFails ==
    /\ epc = "fetch"
    /\ AllDone
    /\ ~chanOpen
    /\ data' = sort_by_key(MergedRows(jobs))
    /\ rdLocked' = FALSE
    /\ epc' = "panicked"
    /\ UNCHANGED <<namespaces, tables, writer, ticks, ns, jobs, completed, chan, chanOpen>>
    /\ UNCHANGED rvars
    /\ UNCHANGED wvars

\* the receiving side drops the channel
ReceiverDrop ==
    /\ chanOpen
    /\ chanOpen' = FALSE
    /\ UNCHANGED <<namespaces, tables, writer, rdLocked, epc, ticks, ns, jobs, completed, data, chan>>
    /\ UNCHANGED rvars
    /\ UNCHANGED wvars

\* a writer of the namespace list asks for the write lock
WriterRequest ==
    /\ writer = "idle"
    /\ writer' = "waiting"
    /\ UNCHANGED <<namespaces, tables, rdLocked, epc, ticks, ns, jobs, completed, data, chan, chanOpen>>
    /\ UNCHANGED rvars
    /\ UNCHANGED wvars

\* the writer gets the lock once no read guard is held, stores a list and releases it
WriterWrite ==
    /\ writer = "waiting"
    /\ ~rdLocked
    /\ namespaces' \in NsLists
    /\ writer' = "idle"
    /\ UNCHANGED <<tables, rdLocked, epc, ticks, ns, jobs, completed, data, chan, chanOpen>>
    /\ UNCHANGED rvars
    /\ UNCHANGED wvars

NextEvent ==
    \/ Tick
    \/ AcquireRead
    \/ FetchComplete
    \/ Publish
    \/ SendFails
    \/ ReceiverDrop
    \/ WriterRequest
    \/ WriterWrite

SpecEvent == InitEvent /\ [][NextEvent]_vars

\* The interval fires, every request comes back, the task of the loop is scheduled,
\* and the lock serves a waiting reader after the writers ahead of it.
FairnessEvent ==
    /\ WF_vars(Tick)
    /\ SF_vars(AcquireRead)
    /\ WF_vars(FetchComplete)
    /\ WF_vars(Publish)
    /\ WF_vars(WriterWrite)

\* the runs of the loop over tables of no row or one row
InitFairEvent ==
    /\ InitEvent
    /\ \A n \in NamespaceNames : tables[n] \in {<<>>, <<RowPulled>>}

FairSpecEvent == InitFairEvent /\ [][NextEvent]_vars /\ FairnessEvent

---------------------------------------------------------------------------
(* The format closure of get_event_table on its own. *)

\* cells shorter than, as long as and longer than the minimum width
FormatCells == {"2m", "dev", "stop", "pod/a"}

\* the rows that reach the closure: the sort before it reads the first cell
FormatInputs == {v \in SeqUpTo(FormatCells, MaxCells) : v # <<>>}

InitFormat ==
    /\ ResolverIdle
    /\ namespaces = <<>>
    /\ tables = <<>>
    /\ EventIdle
    /\ ListIdle
    /\ TextIdle
    /\ frow \in FormatInputs
    /\ fout = None

\* the closure of map runs on the row
Format ==
    /\ fout = None
    /\ fout' = Some(FormatRow(frow))
    /\ UNCHANGED <<frow, lvars, tvars, rvars, evars>>

\* the iterator hands the next row to the closure
NextRow ==
    /\ fout # None
    /\ frow' \in FormatInputs
    /\ fout' = None
    /\ UNCHANGED <<lvars, tvars, rvars, evars>>

NextFormat == Format \/ NextRow

SpecFormat == InitFormat /\ [][NextFormat]_vars

---------------------------------------------------------------------------
(* The List widget. *)

UsizeMax == 2 ^ UsizeBits - 1
Usize == 0..UsizeMax

ItemNames == {"a", "b"}
ItemLists == SeqUpTo(ItemNames, MaxListLen)

Min(a, b) == IF a <= b THEN a ELSE b

\* usize::saturating_sub
SaturatingSub(a, b) == IF a >= b THEN a - b ELSE 0

\* a + b in usize: the sum; past the maximum, a panic where overflow is checked and
\* the wrapped sum where it is not
CheckedAdd(a, b) ==
    IF a + b <= UsizeMax THEN {Ok(a + b)} ELSE {Err, Ok((a + b) % (UsizeMax + 1))}

\* List::select_next: the outcomes, each a panic or the new selection
select_next(sel, n, index) ==
    IF IsSome(sel)
    THEN {IF sum.ok
          THEN [panic |-> FALSE,
                sel |-> Some(IF SaturatingSub(n, 1) < sum.val THEN SaturatingSub(n, 1)
                                                             ELSE sum.val)]
          ELSE [panic |-> TRUE, sel |-> sel] : sum \in CheckedAdd(sel.val, index)}
    ELSE {[panic |-> FALSE, sel |-> Some(0)]}

\* mutant: the subtraction wraps around
select_prev_wrapping(sel, index) ==
    Some(((IF IsSome(sel) THEN sel.val ELSE 0) - index) % (UsizeMax + 1))

\* List::select_prev
select_prev(sel, index) == Some(SaturatingSub(IF IsSome(sel) THEN sel.val ELSE 0, index))

\* List::select_first
select_first == Some(0)

\* List::select_last
select_last(n) == IF n = 0 THEN Some(0) ELSE Some(n - 1)

\* mutant: every new array puts the selection back on the first item
set_items_selected_reset(sel, old_len, new_len) == IF new_len = 0 THEN None ELSE Some(0)

\* List::set_items: the selection after the match on items.len()
set_items_selected(sel, old_len, new_len) ==
    IF new_len = 0 THEN None
    ELSE IF new_len < old_len
         THEN IF sel = Some(old_len - 1) THEN Some(new_len - 1) ELSE sel
         ELSE IF sel = None THEN Some(0) ELSE sel

\* self.items[i] panics
IndexPanics(sel, n) == IsSome(sel) /\ sel.val >= n

\* the offset the stateful render of the list leaves in state: the first item shown,
\* moved just far enough for the selected item to be in the h rows
RenderOffset(sel, offset, n, h) ==
    LET first == Min(offset, n - 1)
        last == Min(first + h, n)
        s == Min(IF IsSome(sel) THEN sel.val ELSE 0, n - 1)
    IN  IF s >= last THEN s - h + 1
        ELSE IF s < first THEN s
        ELSE first

\* ListBuilder::build: the default List, then set_items
InitList ==
    /\ ResolverIdle
    /\ namespaces = <<>>
    /\ tables = <<>>
    /\ EventIdle
    /\ FormatIdle
    /\ TextIdle
    /\ litems \in ItemLists
    /\ lsel = set_items_selected(None, 0, Len(litems))
    /\ loffset = 0
    /\ lcallback \in BOOLEAN
    /\ lstatus = "ok"
    /\ lop = [op |-> "build", arg |-> 0]

ListFrame == UNCHANGED <<fvars, tvars, rvars, evars>>

\* select_next(index), called on the widget
ListSelectNext ==
    /\ lstatus = "ok"
    /\ \E index \in Usize :
        \E out \in select_next(lsel, Len(litems), index) :
            /\ lsel' = out.sel
            /\ lstatus' = IF out.panic THEN "panicked" ELSE "ok"
            /\ lop' = [op |-> "select_next", arg |-> index]
    /\ UNCHANGED <<litems, loffset, lcallback>>
    /\ ListFrame

\* select_prev(index), called on the widget
ListSelectPrev ==
    /\ lstatus = "ok"
    /\ \E index \in Usize :
        /\ lsel' = select_prev(lsel, index)
        /\ lop' = [op |-> "select_prev", arg |-> index]
    /\ UNCHANGED <<litems, loffset, lcallback, lstatus>>
    /\ ListFrame

ListSelectFirst ==
    /\ lstatus = "ok"
    /\ lsel' = select_first
    /\ lop' = [op |-> "select_first", arg |-> 0]
    /\ UNCHANGED <<litems, loffset, lcallback, lstatus>>
    /\ ListFrame

ListSelectLast ==
    /\ lstatus = "ok"
    /\ lsel' = select_last(Len(litems))
    /\ lop' = [op |-> "select_last", arg |-> 0]
    /\ UNCHANGED <<litems, loffset, lcallback, lstatus>>
    /\ ListFrame

\* set_items(WidgetItem::Array(items))
ListSetItems ==
    /\ lstatus = "ok"
    /\ \E items \in ItemLists :
        /\ lsel' = set_items_selected(lsel, Len(litems), Len(items))
        /\ litems' = items
        /\ lop' = [op |-> "set_items", arg |-> Len(items)]
    /\ UNCHANGED <<loffset, lcallback, lstatus>>
    /\ ListFrame

\* get_item: the selected item, read by index
ListGetItem ==
    /\ lstatus = "ok"
    /\ lstatus' = IF IndexPanics(lsel, Len(litems)) THEN "panicked" ELSE "ok"
    /\ lop' = [op |-> "get_item", arg |-> 0]
    /\ UNCHANGED <<litems, lsel, loffset, lcallback>>
    /\ ListFrame

\* on_select_callback: with a callback registered, selected_item reads the item
CallbackPanics(sel, n) == lcallback /\ IndexPanics(sel, n)

\* on_key_event
ListKey ==
    /\ lstatus = "ok"
    /\ \E code \in {"j", "k", "G", "g", "Enter", "x"} :
        /\ lop' = [op |-> "key_" \o code, arg |-> 0]
        /\ CASE code = "j" ->
                   \E out \in select_next(lsel, Len(litems), 1) :
                       /\ lsel' = out.sel
                       /\ lstatus' = IF out.panic THEN "panicked" ELSE "ok"
             [] code = "k" -> lsel' = select_prev(lsel, 1) /\ lstatus' = "ok"
             [] code = "G" -> lsel' = select_last(Len(litems)) /\ lstatus' = "ok"
             [] code = "g" -> lsel' = select_first /\ lstatus' = "ok"
             [] code = "Enter" ->
                   /\ lsel' = lsel
                   /\ lstatus' = IF CallbackPanics(lsel, Len(litems)) THEN "panicked"
                                                                      ELSE "ok"
             [] OTHER -> lsel' = lsel /\ lstatus' = "ok"
    /\ UNCHANGED <<litems, loffset, lcallback>>
    /\ ListFrame

\* on_mouse_event; row is ev.row less the top of the inner chunk
ListMouse ==
    /\ lstatus = "ok"
    /\ \E kind_ \in {"left", "scroll_down", "scroll_up", "moved"}, row \in 0..MaxRow :
        /\ lop' = [op |-> "mouse_" \o kind_, arg |-> row]
        /\ IF litems = <<>> \/ Len(litems) <= row
           THEN lsel' = lsel /\ lstatus' = "ok"
           ELSE CASE kind_ = "left" ->
                       /\ lsel' = Some(row + loffset)
                       /\ lstatus' = IF CallbackPanics(lsel', Len(litems))
                                      THEN "panicked" ELSE "ok"
                  [] kind_ = "scroll_down" ->
                       \E out \in select_next(lsel, Len(litems), 1) :
                           /\ lsel' = out.sel
                           /\ lstatus' = IF out.panic THEN "panicked" ELSE "ok"
                  [] kind_ = "scroll_up" -> lsel' = select_prev(lsel, 1) /\ lstatus' = "ok"
                  [] OTHER -> lsel' = lsel /\ lstatus' = "ok"
    /\ UNCHANGED <<litems, loffset, lcallback>>
    /\ ListFrame

\* render: the stateful list widget is drawn and moves the offset
ListRender ==
    /\ lstatus = "ok"
    /\ loffset' = IF litems = <<>> THEN loffset
                  ELSE RenderOffset(lsel, loffset, Len(litems), ListHeight)
    /\ lop' = [op |-> "render", arg |-> 0]
    /\ UNCHANGED <<litems, lsel, lcallback, lstatus>>
    /\ ListFrame

NextList ==
    \/ ListSelectNext
    \/ ListSelectPrev
    \/ ListSelectFirst
    \/ ListSelectLast
    \/ ListSetItems
    \/ ListGetItem
    \/ ListKey
    \/ ListMouse
    \/ ListRender

SpecList == InitList /\ [][NextList]_vars

---------------------------------------------------------------------------
(* The Text widget. *)

\* an item is a string, here the sequence of its characters
TextItems == {<<"a", "b", "c">>, <<"a", "\n", "b", "c">>}
TextArrays == SeqUpTo(TextItems, MaxTextItems)

\* the widths and heights a chunk is given
TextWidths == {0, 1, 2}
TextHeights == {0, 1, 3}

\* the amounts scroll_down and scroll_up are called with
ScrollArgs == {0, 1, 2, UsizeMax - 1, UsizeMax}

\* str::lines: the pieces of text between its line breaks
RECURSIVE SplitLines(_)
SplitLines(text) ==
    IF \A i \in DOMAIN text : text[i] # "\n" THEN <<text>>
    ELSE LET nl == CHOOSE i \in DOMAIN text :
                       text[i] = "\n" /\ \A j \in 1..(i - 1) : text[j] # "\n"
         IN  <<SubSeq(text, 1, nl - 1)>> \o SplitLines(SubSeq(text, nl + 1, Len(text)))

\* one line cut into pieces of w characters; a width of 0 is taken as no cut
RECURSIVE WrapLine(_, _)
WrapLine(line, w) ==
    IF w = 0 \/ Len(line) <= w THEN <<line>>
    ELSE <<SubSeq(line, 1, w)>> \o WrapLine(SubSeq(line, w + 1, Len(line)), w)

\* wrap(items, wrap_width): the lines of every item, in order
wrap(items, w) ==
    Flatten([i \in DOMAIN items |->
                Flatten([k \in DOMAIN SplitLines(items[i]) |->
                            WrapLine(SplitLines(items[i])[k], w)])])

\* generate_spans: one Spans per line, in the default style
generate_spans(lines) == [i \in DOMAIN lines |-> [content |-> lines[i], reversed |-> FALSE]]

\* Text::wrap_width
wrap_width(wrapping, width) == IF wrapping THEN width ELSE UsizeMax

\* mutant: the height of the chunk is not taken off
update_rows_size_no_chunk(len, height) == len

\* Text::update_rows_size
update_rows_size(len, height) == SaturatingSub(len, height)

\* Text::scroll_down: the outcomes, each a panic or the new position
scroll_down(i, row_size, index) ==
    {IF sum.ok
     THEN [panic |-> FALSE, pos |-> IF row_size <= sum.val THEN row_size ELSE sum.val]
     ELSE [panic |-> TRUE, pos |-> i] : sum \in CheckedAdd(i, index)}

\* Text::scroll_up
scroll_up(i, index) == SaturatingSub(i, index)

\* mutant: a list that got shorter leaves the position where it was
scroll_after_update_unclamped(follow, is_bottom, pos, row_size) ==
    IF follow /\ is_bottom THEN row_size ELSE pos

\* the end of set_items and update_chunk: scroll_bottom under follow at the bottom,
\* and scroll_bottom when the old position is past the new row_size
scroll_after_update(follow, is_bottom, pos, row_size) ==
    IF follow /\ is_bottom THEN row_size
    ELSE IF row_size < pos THEN row_size
    ELSE pos

\* mutant: append_items never scrolls
scroll_after_append_stays(follow, is_bottom, pos, row_size) == pos

\* the end of append_items: select_last under follow at the bottom
scroll_after_append(follow, is_bottom, pos, row_size) ==
    IF follow /\ is_bottom THEN row_size ELSE pos

\* render: the range of lines it slices
RenderStart == tscroll
RenderEnd == IF Len(tspans) < theight THEN Len(tspans) ELSE tscroll + theight

\* Text::new(items), then enable_wrap and enable_follow or not
InitText ==
    /\ ResolverIdle
    /\ namespaces = <<>>
    /\ tables = <<>>
    /\ EventIdle
    /\ FormatIdle
    /\ ListIdle
    /\ titems \in TextArrays
    /\ tspans = <<>>
    /\ trow_size = 0
    /\ tscroll = 0
    /\ twrap \in BOOLEAN
    /\ tfollow \in BOOLEAN
    /\ twidth = 0
    /\ theight = 0
    /\ tstatus = "ok"
    /\ top = [op |-> "new", arg |-> 0]
    /\ thighlight = None

TextFrame == UNCHANGED <<twrap, tfollow, thighlight, fvars, lvars, rvars, evars>>

TextScrollTop ==
    /\ tstatus = "ok"
    /\ tscroll' = 0
    /\ top' = [op |-> "scroll_top", arg |-> 0]
    /\ UNCHANGED <<titems, tspans, trow_size, twidth, theight, tstatus>>
    /\ TextFrame

TextScrollBottom ==
    /\ tstatus = "ok"
    /\ tscroll' = trow_size
    /\ top' = [op |-> "scroll_bottom", arg |-> 0]
    /\ UNCHANGED <<titems, tspans, trow_size, twidth, theight, tstatus>>
    /\ TextFrame

TextScrollDown ==
    /\ tstatus = "ok"
    /\ \E index \in ScrollArgs :
        \E out \in scroll_down(tscroll, trow_size, index) :
            /\ tscroll' = out.pos
            /\ tstatus' = IF out.panic THEN "panicked" ELSE "ok"
            /\ top' = [op |-> "scroll_down", arg |-> index]
    /\ UNCHANGED <<titems, tspans, trow_size, twidth, theight>>
    /\ TextFrame

TextScrollUp ==
    /\ tstatus = "ok"
    /\ \E index \in ScrollArgs :
        /\ tscroll' = scroll_up(tscroll, index)
        /\ top' = [op |-> "scroll_up", arg |-> index]
    /\ UNCHANGED <<titems, tspans, trow_size, twidth, theight, tstatus>>
    /\ TextFrame

\* set_items(WidgetItem::Array(items))
TextSetItems ==
    /\ tstatus = "ok"
    /\ \E items \in TextArrays :
        /\ titems' = items
        /\ tspans' = generate_spans(wrap(items, wrap_width(twrap, twidth)))
        /\ trow_size' = update_rows_size(Len(tspans'), theight)
        /\ tscroll' = scroll_after_update(tfollow, tscroll = trow_size, tscroll, trow_size')
    /\ top' = [op |-> "set_items", arg |-> 0]
    /\ UNCHANGED <<twidth, theight, tstatus>>
    /\ TextFrame

\* update_chunk(area)
TextUpdateChunk ==
    /\ tstatus = "ok"
    /\ \E width \in TextWidths, height \in TextHeights :
        /\ twidth' = width
        /\ theight' = height
        /\ tspans' = generate_spans(wrap(titems, wrap_width(twrap, width)))
        /\ trow_size' = update_rows_size(Len(tspans'), height)
        /\ tscroll' = scroll_after_update(tfollow, tscroll = trow_size, tscroll, trow_size')
    /\ top' = [op |-> "update_chunk", arg |-> 0]
    /\ UNCHANGED <<titems, tstatus>>
    /\ TextFrame

\* clear()
TextClear ==
    /\ tstatus = "ok"
    /\ titems' = <<>>
    /\ tspans' = <<>>
    /\ tscroll' = 0
    /\ trow_size' = 0
    /\ top' = [op |-> "clear", arg |-> 0]
    /\ UNCHANGED <<twidth, theight, tstatus>>
    /\ TextFrame

\* append_items(WidgetItem::Array(items)): the new lines go behind the old ones
TextAppendItems ==
    /\ tstatus = "ok"
    /\ \E items \in TextArrays :
        /\ Len(titems) + Len(items) <= MaxTextItems
        /\ titems' = titems \o items
        /\ tspans' = tspans \o generate_spans(wrap(items, wrap_width(twrap, twidth)))
        /\ trow_size' = update_rows_size(Len(tspans'), theight)
        /\ tscroll' = scroll_after_append(tfollow, tscroll = trow_size, tscroll, trow_size')
    /\ top' = [op |-> "append_items", arg |-> 0]
    /\ UNCHANGED <<twidth, theight, tstatus>>
    /\ TextFrame

\* get_item: the line at the vertical position, read by index
TextGetItem ==
    /\ tstatus = "ok"
    /\ tstatus' = IF tscroll >= Len(tspans) THEN "panicked" ELSE "ok"
    /\ top' = [op |-> "get_item", arg |-> 0]
    /\ UNCHANGED <<titems, tspans, trow_size, tscroll, twidth, theight>>
    /\ TextFrame

\* render: slices self.spans[start..end]
TextRender ==
    /\ tstatus = "ok"
    /\ tstatus' = IF RenderStart <= RenderEnd /\ RenderEnd <= Len(tspans) THEN "ok"
                                                                         ELSE "panicked"
    /\ top' = [op |-> "render", arg |-> 0]
    /\ UNCHANGED <<titems, tspans, trow_size, tscroll, twidth, theight>>
    /\ TextFrame

\* fn highlight_content: the line as one span in the reversed style
highlight_content(target) == [content |-> target.content, reversed |-> TRUE]

\* on_mouse_event; y is ev.row less the top of the chunk, an index into spans
TextMouse ==
    /\ tstatus = "ok"
    /\ \E button \in {"left", "right"}, y \in 0..MaxRow :
        /\ top' = [op |-> "mouse_" \o button, arg |-> y]
        /\ IF button # "left" \/ Len(tspans) <= y
           THEN UNCHANGED <<tspans, thighlight, tstatus>>
           ELSE IF IsSome(thighlight) /\ thighlight.val.index >= Len(tspans)
           THEN /\ tstatus' = "panicked"
                /\ UNCHANGED <<tspans, thighlight>>
           ELSE LET restored == IF IsSome(thighlight)
                                THEN [tspans EXCEPT ![thighlight.val.index + 1] =
                                                        thighlight.val.spans]
                                ELSE tspans
                IN  /\ thighlight' = Some([spans |-> restored[y + 1], index |-> y])
                    /\ tspans' = [restored EXCEPT ![y + 1] = highlight_content(restored[y + 1])]
                    /\ tstatus' = "ok"
    /\ UNCHANGED <<titems, trow_size, tscroll, twidth, theight>>
    /\ UNCHANGED <<twrap, tfollow, fvars, lvars, rvars, evars>>

NextText ==
    \/ TextScrollTop
    \/ TextScrollBottom
    \/ TextScrollDown
    \/ TextScrollUp
    \/ TextSetItems
    \/ TextUpdateChunk
    \/ TextClear
    \/ TextAppendItems
    \/ TextGetItem
    \/ TextRender

SpecText == InitText /\ [][NextText]_vars

\* The operations that write spans or highlight_content: the content setters, the resize,
\* and the click. Scrolling reads neither.
NextHighlight ==
    \/ TextSetItems
    \/ TextUpdateChunk
    \/ TextClear
    \/ TextAppendItems
    \/ TextMouse

SpecHighlight == InitText /\ [][NextHighlight]_vars

---------------------------------------------------------------------------
(* Vocabulary of the properties of the resolvers. *)

\* the j-th smallest index of idx
Nth(idx, j) == CHOOSE i \in idx : Cardinality({k \in idx : k <= i}) = j

\* the items of L at the indexes idx, in the order of L
PickInOrder(L, idx) == [j \in 1..Cardinality(idx) |-> L[Nth(idx, j)]]

\* item has a label mapping holding every (key, value) pair of S
SelectorMatches(S, item) ==
    /\ IsSome(item.labels)
    /\ \A k \in DOMAIN S : k \in DOMAIN item.labels.val /\ item.labels.val[k] = S[k]

\* item's name is one of the names N
NameMatches(N, item) == \E j \in DOMAIN N : item.name = Some(N[j])

\* the indexes of the fetched items that match the criteria of the call
MatchIdx ==
    {i \in DOMAIN cluster :
        IF kind = "pod" THEN SelectorMatches(criteria, cluster[i])
                        ELSE NameMatches(criteria, cluster[i])}

\* the names of the items of L at the indexes idx that have a name, in the order of L
NamesAt(L, idx) ==
    LET named == {i \in idx : IsSome(L[i].name)}
    IN  [j \in 1..Cardinality(named) |-> L[Nth(named, j)].name.val]

FetchSucceeded == rpc = "done" /\ fetched = Some(Ok(cluster))
FetchFailed == rpc = "done" /\ fetched = Some(Err)

---------------------------------------------------------------------------
(* Claims about the filter engine and the resolvers, under SpecResolve. *)

\* C1: the selector filter returns Some iff some item of the list has a label
\* mapping containing every pair of the selector, and then holds exactly those
\* items (extra labels allowed, no label mapping excluded) in their original order.
C1_SelectorFilterExact ==
    (FetchSucceeded /\ kind = "pod") =>
        /\ IsSome(filtered)
        /\ IsSome(filtered.val) <=> (MatchIdx # {})
        /\ IsSome(filtered.val) => filtered.val.val = PickInOrder(cluster, MatchIdx)

\* a two-pod list of which the filter kept the pod with an extra label and
\* dropped the pod without a label mapping
C1_Witness ==
    /\ FetchSucceeded /\ kind = "pod"
    /\ Len(cluster) = 2
    /\ DOMAIN criteria = {"app"}
    /\ cluster[1].labels = None
    /\ IsSome(cluster[2].labels) /\ DOMAIN cluster[2].labels.val = {"app", "version"}
    /\ filtered = Some(Some(<<cluster[2]>>))

\* C2: the name filter returns exactly the services whose name is in the name
\* collection, in the order of the list, and None iff no service is named there.
C2_NameFilterExact ==
    (FetchSucceeded /\ kind = "service") =>
        /\ IsSome(filtered)
        /\ (filtered.val = None) <=> (MatchIdx = {})
        /\ IsSome(filtered.val) => filtered.val.val = PickInOrder(cluster, MatchIdx)

\* the names are given in the reverse of the list's order and both services are kept
\* in the list's order
C2_Witness ==
    /\ FetchSucceeded /\ kind = "service"
    /\ Len(cluster) = 2 /\ cluster[1] # cluster[2]
    /\ criteria = <<cluster[2].name.val, cluster[1].name.val>>
    /\ filtered = Some(Some(cluster))

\* C3 as stated: after a successful fetch the result is Ok(Some(names)), names being
\* the names of the matching items in list order, and Ok(None) when nothing matches.
C3_Original ==
    FetchSucceeded =>
        result = Some(IF MatchIdx # {} THEN Ok(Some(NamesAt(cluster, MatchIdx)))
                                        ELSE Ok(None))

\* C3 amended: after a successful fetch the result is Ok(Some(names)) when the
\* names of the matching items, in list order, are not empty, and Ok(None) when no
\* item matches or no matching item has a name.
C3_ResolveNames ==
    FetchSucceeded =>
        result = Some(IF NamesAt(cluster, MatchIdx) # <<>>
                      THEN Ok(Some(NamesAt(cluster, MatchIdx)))
                      ELSE Ok(None))

\* both fetched items match, have different names, and their names came back in
\* list order
C3_Witness ==
    /\ FetchSucceeded
    /\ Len(cluster) = 2 /\ Cardinality(MatchIdx) = 2
    /\ IsSome(cluster[1].name) /\ IsSome(cluster[2].name)
    /\ cluster[1].name # cluster[2].name
    /\ result = Some(Ok(Some(<<cluster[1].name.val, cluster[2].name.val>>)))

\* C4: a failed request makes related_resources return the error, never Ok, for any
\* criteria; the filter step does not run.
C4_ErrorPropagates ==
    FetchFailed => (result = Some(Err) /\ filtered = None)

\* the request failed for an empty selector on a cluster whose pods all have labels
C4_Witness ==
    /\ FetchFailed /\ kind = "pod"
    /\ DOMAIN criteria = {}
    /\ Len(cluster) = 2 /\ MatchIdx = {1, 2}
    /\ result = Some(Err)

\* C5: no stage returns Some of something empty: neither filter returns Some of an
\* empty list, a matched list without any name projects to None, and
\* related_resources never returns Ok(Some(<<>>)).
C5_EmptyMeansNone ==
    /\ IsSome(filtered) => filtered.val # Some(<<>>)
    /\ result # Some(Ok(Some(<<>>)))
    /\ (FetchSucceeded /\ NamesAt(cluster, MatchIdx) = <<>>) => result = Some(Ok(None))

\* the filter kept two pods, neither has a name, and the projection gave None
C5_Witness ==
    /\ FetchSucceeded /\ kind = "pod"
    /\ IsSome(filtered.val) /\ Len(filtered.val.val) = 2
    /\ \A i \in 1..2 : filtered.val.val[i].name = None
    /\ result = Some(Ok(None))

\* the indexes of the fetched items that have a label mapping
LabelledIdx == {i \in DOMAIN cluster : IsSome(cluster[i].labels)}

\* C6 as stated: with the empty selector the filter returns None and a resolve after a
\* successful fetch returns Ok(None).
C6_Original ==
    (FetchSucceeded /\ kind = "pod" /\ DOMAIN criteria = {}) =>
        (filtered = Some(None) /\ result = Some(Ok(None)))

\* C6 amended: the empty selector matches every pod that has a label mapping: the
\* filter returns Some of exactly those pods in list order, and None iff no pod of
\* the list has a label mapping; the resolve returns their names, or Ok(None) when
\* none of them has a name.
C6_EmptySelectorMatchesLabelled ==
    (FetchSucceeded /\ kind = "pod" /\ DOMAIN criteria = {}) =>
        /\ filtered = Some(IF LabelledIdx # {} THEN Some(PickInOrder(cluster, LabelledIdx))
                                                ELSE None)
        /\ result = Some(IF NamesAt(cluster, LabelledIdx) # <<>>
                         THEN Ok(Some(NamesAt(cluster, LabelledIdx)))
                         ELSE Ok(None))

\* the empty selector kept both labelled pods of the list
C6_Witness ==
    /\ FetchSucceeded /\ kind = "pod" /\ DOMAIN criteria = {}
    /\ Len(cluster) = 2 /\ LabelledIdx = {1, 2}
    /\ filtered = Some(Some(cluster))
    /\ IsSome(result.val.val)

\* C7: filtering any service list by an empty name collection returns None.
C7_EmptyNamesMatchNothing ==
    (FetchSucceeded /\ kind = "service" /\ criteria = <<>>) =>
        (filtered = Some(None) /\ result = Some(Ok(None)))

\* a list of two services was filtered by no names
C7_Witness ==
    /\ FetchSucceeded /\ kind = "service" /\ criteria = <<>>
    /\ Len(cluster) = 2
    /\ filtered = Some(None)

---------------------------------------------------------------------------
(* Vocabulary of the properties of the aggregator and the loop. *)

\* an iteration of the loop has just published: data and jobs are that iteration's
Published == epc = "tick" /\ chan # <<>>

\* the rows of the payload sent last
LastRows == chan[Len(chan)].rows

\* how often x occurs in seq
Count(seq, x) == Cardinality({i \in DOMAIN seq : seq[i] = x})

\* a and b hold the same rows, each the same number of times
SameRows(a, b) ==
    /\ Len(a) = Len(b)
    /\ \A i \in DOMAIN a : Count(a, a[i]) = Count(b, a[i])

\* the cells shown for a row of the API's table in namespace n: last seen, namespace,
\* object, reason, message
ShownCells(raw, n) == <<raw[1], n, raw[4], raw[3], raw[5]>>

RECURSIVE SumLen(_)
SumLen(seqs) == IF seqs = <<>> THEN 0 ELSE Len(Head(seqs)) + SumLen(Tail(seqs))

---------------------------------------------------------------------------
(* Claims about the aggregator and the loop, under SpecEvent. *)

\* C8: the rows of all namespaces are merged and sorted ascending by the time of
\* their first cell before formatting, and the i-th string of the output is the
\* formatting of the i-th sorted row.
C8_SortedThenFormatted ==
    Published =>
        /\ SameRows(data, Flatten([i \in DOMAIN jobs |-> jobs[i].rows]))
        /\ \A i, j \in DOMAIN data : i < j => to_time(data[i][1]) <= to_time(data[j][1])
        /\ DOMAIN LastRows = DOMAIN data
        /\ \A i \in DOMAIN data : LastRows[i] = FormatRow(data[i])

\* three rows of two namespaces arrived out of time order, two of them at the same
\* time, and were published sorted
C8_Witness ==
    /\ Published
    /\ Len(data) = 3
    /\ data # Flatten([i \in DOMAIN jobs |-> jobs[i].rows])
    /\ data[1][2] # data[2][2]
    /\ to_time(data[1][1]) < to_time(data[2][1])
    /\ to_time(data[2][1]) = to_time(data[3][1])
    /\ Len(LastRows) = 3

\* C9: a namespace whose fetch failed contributes no row, every row of every
\* namespace whose fetch succeeded is in the published output, and the output holds
\* nothing else: the failure does not abort the aggregation and is not in the payload.
C9_FailedNamespaceDropped ==
    Published =>
        /\ \A i \in DOMAIN jobs :
              ~jobs[i].ok => \A k \in DOMAIN data : data[k][2] # ns[i]
        /\ \A i \in DOMAIN jobs :
              jobs[i].ok =>
                  \A r \in DOMAIN tables[ns[i]] :
                      \E k \in DOMAIN LastRows :
                          /\ data[k] = ShownCells(tables[ns[i]][r], ns[i])
                          /\ LastRows[k] = FormatRow(data[k])
        /\ Len(LastRows) =
              SumLen([i \in DOMAIN jobs |-> IF jobs[i].ok THEN tables[ns[i]] ELSE <<>>])

\* the fetch of the first namespace failed, the second one's two rows were published
C9_Witness ==
    /\ Published
    /\ Len(ns) = 2
    /\ ~jobs[1].ok /\ jobs[2].ok
    /\ tables[ns[1]] # <<>>
    /\ Len(tables[ns[2]]) = 2
    /\ Len(LastRows) = 2
    /\ \A k \in 1..2 : data[k][2] = ns[2]

\* C10: ticks are handled one at a time: an iteration reads the namespace list,
\* runs one aggregation on it and publishes exactly one payload before the next
\* tick is taken, so the payloads are in tick order and no fetch of an aggregation
\* is in flight outside its own iteration.
C10_OnePayloadPerTick ==
    /\ epc = "tick" => Len(chan) = ticks
    /\ epc \in {"lock", "fetch", "panicked"} => Len(chan) = ticks - 1
    /\ \A k \in DOMAIN chan : chan[k].tick = k
    /\ epc = "fetch" => (ns = namespaces /\ DOMAIN jobs = DOMAIN ns)
    /\ epc # "fetch" => AllDone
    /\ Published => (DOMAIN jobs = DOMAIN ns /\ LastRows = FormatRows(data))

\* two ticks were taken and each published its payload, the first one without rows
C10_Witness ==
    /\ epc = "tick"
    /\ ticks = 2
    /\ Len(chan) = 2
    /\ chan[1].rows = <<>>
    /\ chan[2].rows # <<>>

---------------------------------------------------------------------------
(* Claims about the life of the loop, under SpecEvent. *)

\* the task of the loop has ended
Stopped == epc \in {"panicked", "returned"}

\* what the loop itself writes
LoopVars == <<epc, ticks, rdLocked, ns, jobs, completed, data, chan>>

\* the loop has a step to take, now or as soon as the waiting writer has written
LoopCanStep ==
    \/ ENABLED (Tick \/ AcquireRead \/ FetchComplete \/ Publish)
    \/ (epc = "lock" /\ writer = "waiting" /\ ENABLED WriterWrite)

\* the model takes no tick beyond MaxTicks
TicksExhausted == epc = "tick" /\ ticks = MaxTicks

\* C11: the loop stops only when publishing fails. It has stopped only if the
\* channel is closed; while the channel is open it always has a next step; the
\* iteration whose send fails ends the loop; and once it has ended there is no
\* further read of the namespaces, fetch or publish.
C11_StopsOnlyOnSendFailure ==
    /\ [](Stopped => ~chanOpen)
    /\ []((~Stopped /\ chanOpen /\ ~TicksExhausted) => LoopCanStep)
    /\ [][(epc = "fetch" /\ AllDone /\ ~chanOpen /\ epc' # epc) => Stopped']_vars
    /\ [][Stopped => UNCHANGED LoopVars]_vars

\* the first tick was published, the send of the second one failed and the loop
\* has ended
C11_Witness ==
    /\ Stopped
    /\ ticks = 2
    /\ Len(chan) = 1
    /\ ~chanOpen

\* a future of join_all has not completed yet
FetchInFlight == epc = "fetch" /\ \E i \in DOMAIN jobs : ~jobs[i].done

\* C12: the read lock on the namespaces is held only while the list is read, not
\* during the fetches: in no reachable state is the read guard held while the fetch
\* of a namespace is in flight.
C12_Original == ~(rdLocked /\ FetchInFlight)

---------------------------------------------------------------------------
(* Claims about the join of the fetches, under SpecEvent. *)

\* the futures that have completed
DoneIdx == {i \in DOMAIN jobs : jobs[i].done}

\* C13: within one aggregation one fetch is issued for every namespace of the
\* list, each completes once, a completion (with a table or with an error) leaves
\* every other fetch as it is, and the aggregation goes on to merge and sort only
\* when all the fetches have completed.
C13_AllFetchesJoined ==
    /\ [](epc = "fetch" =>
            /\ DOMAIN jobs = DOMAIN ns
            /\ {completed[k] : k \in DOMAIN completed} = DoneIdx
            /\ Len(completed) = Cardinality(DoneIdx))
    /\ [][(epc = "lock" /\ epc' = "fetch") =>
            (ns' = namespaces /\ \A i \in DOMAIN ns' : jobs'[i] = Pending)]_vars
    /\ [][(epc = "fetch" /\ epc' = "fetch") =>
            \A i \in DOMAIN jobs :
                jobs'[i] # jobs[i] =>
                    /\ ~jobs[i].done /\ jobs'[i].done
                    /\ \A j \in DOMAIN jobs \ {i} : jobs'[j] = jobs[j]]_vars
    /\ [][(epc = "fetch" /\ epc' # "fetch") => (AllDone /\ jobs' = jobs)]_vars

\* the fetch of the second namespace failed first, the fetch of the first one
\* completed after it with rows, and these rows were merged and published
C13_Witness ==
    /\ Published
    /\ Len(ns) = 2
    /\ completed = <<2, 1>>
    /\ ~jobs[2].ok
    /\ jobs[1].ok /\ jobs[1].rows # <<>>
    /\ data = jobs[1].rows

\* the rows of the namespaces whose fetch succeeded, by place in the namespace list
\* and, within a namespace, by place in its table
RowsInListOrder ==
    Flatten([i \in DOMAIN ns |->
                IF jobs[i].ok
                THEN [r \in DOMAIN tables[ns[i]] |-> ShownCells(tables[ns[i]][r], ns[i])]
                ELSE <<>>])

\* the place of rows[i] once rows is sorted ascending by time with ties left in order
StablePlace(rows, i) ==
    Cardinality({j \in DOMAIN rows : to_time(rows[j][1]) < to_time(rows[i][1])})
    + Cardinality({j \in 1..i : to_time(rows[j][1]) = to_time(rows[i][1])})

\* C14: the published output does not depend on the order in which the fetches
\* completed: it is fixed by the namespace list, the tables and which fetches
\* succeeded, rows of equal time standing in namespace-list order and then in
\* table order.
C14_CompletionOrderIrrelevant ==
    Published =>
        /\ Len(data) = Len(RowsInListOrder)
        /\ \A i \in DOMAIN RowsInListOrder :
              data[StablePlace(RowsInListOrder, i)] = RowsInListOrder[i]
        /\ LastRows = FormatRows(data)

\* the fetch of the second namespace completed before the first one's, and two rows
\* of equal time were published with the first namespace's row in front
C14_Witness ==
    /\ Published
    /\ Len(ns) = 2
    /\ completed = <<2, 1>>
    /\ jobs[1].ok /\ jobs[2].ok
    /\ \E k \in DOMAIN data :
          /\ k + 1 \in DOMAIN data
          /\ to_time(data[k][1]) = to_time(data[k + 1][1])
          /\ data[k][2] = ns[1]
          /\ data[k + 1][2] = ns[2]
    /\ Len(LastRows) = Len(data)

---------------------------------------------------------------------------
(* Claims about the progress of the loop, under FairSpecEvent. *)

\* the payload of tick k has been sent and the iteration is over
PublishedTick(k) == epc = "tick" /\ Len(chan) = k /\ chan[k].tick = k

\* C15: while the channel accepts sends and every fetch completes, the loop keeps
\* going: every tick taken, whatever fetches fail in it, is followed by the publish
\* of its payload unless the channel is closed, and every publish is followed by
\* the next tick (in the model up to MaxTicks).
C15_KeepsTicking ==
    \A k \in 1..MaxTicks :
        /\ (ticks = k /\ epc \in {"lock", "fetch"}) ~> (PublishedTick(k) \/ ~chanOpen)
        /\ (PublishedTick(k) /\ k < MaxTicks) ~> (ticks = k + 1)

\* every fetch of the first tick failed, its payload was published all the same, and
\* the second tick has been taken
C15_Witness ==
    /\ epc = "lock"
    /\ ticks = 2
    /\ Len(jobs) = 2
    /\ \A i \in DOMAIN jobs : jobs[i].done /\ ~jobs[i].ok
    /\ Len(chan) = 1
    /\ chan[1].rows = <<>>
    /\ chanOpen

---------------------------------------------------------------------------
(* Claims about the end of the loop, under SpecEvent. *)

\* C16 as stated: when the channel is closed the loop ends by returning, as a
\* graceful shutdown, and not by a panic.
C16_Original == Stopped => epc = "returned"

\* C16: when the channel is closed, the send of the iteration fails and the loop
\* ends by the panic of unwrap, never by a return: the payload of that iteration is
\* not delivered and the read guard is released.
C16_PanicsOnClosedChannel ==
    /\ [](Stopped =>
            /\ epc = "panicked"
            /\ ~chanOpen
            /\ ~rdLocked
            /\ Len(chan) = ticks - 1)
    /\ [][(epc = "fetch" /\ AllDone /\ ~chanOpen /\ epc' # epc) =>
            (epc' = "panicked" /\ chan' = chan)]_vars

\* the receiver was gone before the first send: the loop panicked with a table of
\* rows that went nowhere
C16_Witness ==
    /\ epc = "panicked"
    /\ ticks = 1
    /\ chan = <<>>
    /\ data # <<>>
    /\ ~rdLocked

---------------------------------------------------------------------------
(* Further claims about the filter engine and the resolvers, under SpecResolve. *)

\* the filter of the call's kind, applied to list with the call's criteria
FilterOfKind(list) ==
    IF kind = "pod" THEN SelectorFilter(criteria, list) ELSE filter_by_item(list, criteria)

\* C17: filtering is idempotent: the filter applied with the same criteria to the
\* list it returned returns that list again, for the selector filter and for the
\* name filter.
C17_FilterIdempotent ==
    (rpc = "done" /\ IsSome(filtered) /\ IsSome(filtered.val)) =>
        FilterOfKind(filtered.val.val) = filtered.val

\* of two fetched pods the selector kept one and dropped the other, and a second
\* pass keeps that one
C17_Witness ==
    /\ FetchSucceeded /\ kind = "pod"
    /\ Len(cluster) = 2
    /\ DOMAIN criteria # {}
    /\ IsSome(filtered.val) /\ Len(filtered.val.val) = 1
    /\ FilterOfKind(filtered.val.val) = filtered.val

\* C18: filtering and projection read their inputs only: after the call the fetched
\* list is the list the server returned, item for item, the criteria are those of
\* the call, and the filtered list is still what the filter returned.
C18_InputsUntouched ==
    /\ []((rpc = "done" /\ fetched # Some(Err)) =>
            /\ fetched = Some(Ok(cluster))
            /\ filtered = Some(FilterOfKind(cluster)))
    /\ [][cluster' = cluster /\ criteria' = criteria /\ kind' = kind]_vars

\* of two fetched services the names kept the second only and its name was
\* projected; the fetched list still holds both
C18_Witness ==
    /\ rpc = "done" /\ kind = "service"
    /\ Len(cluster) = 2
    /\ fetched = Some(Ok(cluster))
    /\ filtered = Some(Some(<<cluster[2]>>))
    /\ result = Some(Ok(Some(<<cluster[2].name.val>>)))
    /\ criteria # <<>>

\* C19: a call of related_resources sends exactly one request to the client,
\* whether the request succeeds or fails: there is no retry and no second request.
C19_OneRequest ==
    /\ rpc = "new" => requests = <<>>
    /\ rpc \in {"requesting", "done"} => Len(requests) = 1

\* the request of a call failed, the call returned the error, and one request was
\* sent
C19_Witness ==
    /\ FetchFailed
    /\ result = Some(Err)
    /\ Len(requests) = 1

\* C20: the path handed to the client is api/v1/namespaces/{ns}/{resource} with no
\* leading slash, for pods and for services alike.
C20_Original ==
    \A k \in DOMAIN requests :
        \E n \in NamespaceNames :
            requests[k] = "api/v1/namespaces/" \o n \o "/"
                              \o (IF kind = "pod" THEN "pods" ELSE "services")

---------------------------------------------------------------------------
(* Claims about the rows of the aggregator and the namespace list, under SpecEvent. *)

C23_NamespacesOnlyRead ==
    /\ [][LoopVars' # LoopVars => namespaces' = namespaces]_vars
    /\ [][namespaces' # namespaces => (writer = "waiting" /\ writer' = "idle")]_vars

\* two ticks were published, the second with a failed fetch, and the list of two
\* namespaces is the one the loop read
C23_Witness ==
    /\ epc = "tick"
    /\ ticks = 2
    /\ Len(chan) = 2
    /\ Len(namespaces) = 2
    /\ namespaces = ns
    /\ ~jobs[1].ok /\ jobs[2].ok
    /\ writer = "idle"

---------------------------------------------------------------------------
(* Claim about the format of a row, under SpecFormat. *)

\* item with spaces added on its right up to n characters, as it is when longer
RECURSIVE LeftAligned(_, _)
LeftAligned(item, n) == IF Len(item) >= n THEN item ELSE LeftAligned(item \o " ", n)

\* the first k cells of v, each left-aligned to 4 characters and followed by 2 spaces
RECURSIVE LeadingCells(_, _)
LeadingCells(v, k) ==
    IF k = 0 THEN "" ELSE LeadingCells(v, k - 1) \o LeftAligned(v[k], 4) \o "  "

\* C22: the string of a row is its cells but the last, in order, each left-aligned,
\* padded to at least 4 characters and followed by 2 spaces, then on a new line the
\* last cell behind "> " in the dimmed style, then a line break and a space; a row
\* of one cell is that second part alone.
C22_RowFormat ==
    IsSome(fout) =>
        fout.val = LeadingCells(frow, Len(frow) - 1)
                       \o "\n" \o DIM \o "> " \o frow[Len(frow)] \o RESET \o "\n "

\* a row of a short, a long and a last cell was formatted
C22_Witness ==
    /\ frow = <<"2m", "pod/a", "stop">>
    /\ fout = Some("2m    pod/a  \n\\x1b[90m> stop\\x1b[0m\n ")

---------------------------------------------------------------------------
(* Claims about the List widget, under SpecList. *)

\* C24: select_next(k) clamps at the end and never wraps: with Some(i) selected
\* on a non-empty list of n items the selection becomes min(i + k, n - 1), for
\* every k, and with nothing selected it becomes 0.
C24_Original ==
    [][lop'.op = "select_next" =>
          /\ lstatus' = "ok"
          /\ IF IsSome(lsel)
             THEN litems # <<>> =>
                      lsel' = Some(Min(lsel.val + lop'.arg, Len(litems) - 1))
             ELSE lsel' = Some(0)]_vars

\* C25: select_prev(k) stops at the first item and never wraps: with Some(i)
\* selected the selection becomes i - k when k <= i and 0 otherwise, for every k.
C25_SelectPrevSaturates ==
    [][(lop'.op = "select_prev" /\ IsSome(lsel)) =>
          /\ lstatus' = "ok"
          /\ lsel' = Some(IF lop'.arg <= lsel.val THEN lsel.val - lop'.arg ELSE 0)]_vars

\* select_prev(5) ran on a list of three items, whose indexes are all below 5, and
\* the first item is selected
C25_Witness ==
    /\ lop = [op |-> "select_prev", arg |-> 5]
    /\ Len(litems) = 3
    /\ lsel = Some(0)
    /\ lstatus = "ok"

\* C26: set_items sets the selection so: an empty array clears it; a non-empty
\* array that is not shorter than the current one, given while nothing is selected,
\* selects index 0; an array shorter than the current one, given while the last
\* current item is selected, selects the new last index; in every other case the
\* selection is left as it is. The items become the array.
C26_SetItemsSelection ==
    [][lop'.op = "set_items" =>
          LET old_len == Len(litems)
              new_len == Len(litems')
          IN  /\ new_len = lop'.arg
              /\ lstatus' = "ok"
              /\ lsel' = CASE new_len = 0 -> None
                           [] new_len > 0 /\ new_len >= old_len /\ lsel = None -> Some(0)
                           [] new_len > 0 /\ new_len < old_len /\ lsel = Some(old_len - 1)
                                 -> Some(new_len - 1)
                           [] OTHER -> lsel]_vars

\* an array of one item was set and the selection is still index 1: it was not the
\* last item of a longer array and was left as it was
C26_Witness ==
    /\ lop = [op |-> "set_items", arg |-> 1]
    /\ Len(litems) = 1
    /\ lsel = Some(1)

\* C28: after any sequence of operations and events on a List the selection is
\* None when the list is empty and otherwise an index below the number of items, so
\* reading the selected item never indexes past the end.
C28_Original ==
    /\ litems = <<>> => lsel = None
    /\ IsSome(lsel) => lsel.val < Len(litems)
    /\ lstatus = "ok"

---------------------------------------------------------------------------
(* Claims about the Text widget, under SpecText. *)

\* the widget is scrolled to the bottom
is_bottom == tscroll = trow_size

\* C27: follow mode keeps the widget at the bottom: when follow is on and the
\* widget is at the bottom before append_items, set_items or update_chunk, it is at
\* the bottom after it, whatever lines came and with wrapping on or off.
C27_FollowStaysAtBottom ==
    [][(top'.op \in {"append_items", "set_items", "update_chunk"} /\ tfollow /\ is_bottom)
          => (tscroll' = trow_size' /\ tstatus' = "ok")]_vars

\* with follow and wrapping on, lines were appended past the height of the chunk
\* and the widget is at the new bottom
C27_Witness ==
    /\ top.op = "append_items"
    /\ tfollow /\ twrap
    /\ twidth = 2
    /\ theight = 3
    /\ Len(tspans) > 3
    /\ trow_size > 0
    /\ is_bottom

\* C29: after any sequence of scroll_down, scroll_up, scroll_top, scroll_bottom,
\* set_items, append_items, update_chunk and clear the vertical position is at most
\* row_size, and row_size is the number of rendered lines less the height of the
\* chunk, or 0 when that is negative.
C29_ScrollWithinRowSize ==
    /\ tscroll <= trow_size
    /\ trow_size = IF Len(tspans) >= theight THEN Len(tspans) - theight ELSE 0

\* without follow, items of two lines were set in a chunk one row high, and the
\* position is at the bottom, row 1
C29_Witness ==
    /\ top.op = "set_items"
    /\ ~tfollow
    /\ Len(tspans) = 2
    /\ theight = 1
    /\ trow_size = 1
    /\ tscroll = 1

\* C30: in every state reached through the scroll operations, set_items,
\* append_items, update_chunk and clear, the range [start, end) that render slices
\* has start at the vertical position and start <= end <= number of lines, so
\* render does not panic.
C30_RenderRangeInBounds ==
    /\ RenderStart = tscroll
    /\ RenderStart <= RenderEnd
    /\ RenderEnd <= Len(tspans)
    /\ top.op = "render" => tstatus = "ok"

\* scrolled down in a chunk three rows high holding more lines than rows, the
\* widget was rendered: the range ends at the last line
C30_Witness ==
    /\ top.op = "render"
    /\ tstatus = "ok"
    /\ theight = 3
    /\ RenderStart > 0
    /\ RenderEnd = Len(tspans)

\* C31: get_item always returns the line at the vertical position: in every
\* reachable state, a new or cleared widget without lines and a widget of chunk
\* height 0 scrolled to the bottom included, the position is an index of a
\* rendered line, so get_item does not panic.
C31_Original ==
    /\ tscroll < Len(tspans)
    /\ top.op = "get_item" => tstatus = "ok"

\* C33: scroll_down(n) sets the vertical position to min(i + n, row_size) for
\* every position i and every n of the unsigned 64-bit range, without overflow in
\* i + n, and scroll_up(n) sets it to i - n, or to 0 when that is negative.
C33_Original ==
    [][/\ top'.op = "scroll_down" =>
              /\ tstatus' = "ok"
              /\ tscroll' = Min(tscroll + top'.arg, trow_size)
       /\ top'.op = "scroll_up" =>
              /\ tstatus' = "ok"
              /\ tscroll' = IF tscroll >= top'.arg THEN tscroll - top'.arg ELSE 0]_vars

\* A line of spans drawn in the reversed style
Highlighted == {i \in 1..Len(tspans) : tspans[i].reversed}

\* C32: after a left click on a visible line exactly that line is highlighted and the line
\* highlighted before it is restored: never more than one line is reversed, the saved line
\* is the plain form of the line at the saved index, and the click completes.
C32_Original ==
    /\ Cardinality(Highlighted) <= 1
    /\ IsSome(thighlight) /\ tstatus = "ok" =>
           /\ thighlight.val.index < Len(tspans)
           /\ Highlighted \subseteq {thighlight.val.index + 1}
           /\ thighlight.val.spans.content = tspans[thighlight.val.index + 1].content
    /\ top.op = "mouse_left" => tstatus = "ok"

=========================================================================
